---- MODULE Spec2Model ----
(***************************************************************************)
(* Model of programs/chainlink_solana_demo/src/lib.rs: the asset registry, *)
(* the per-owner obligations, the ledger instructions and the health check *)
(* that gates them.                                                        *)
(*                                                                         *)
(* An instruction is one action.  An action covers the account validation  *)
(* of its #[derive(Accounts)] context, the handler body and the write-back *)
(* of the accounts at exit: the accounts are written back only when the    *)
(* handler returns Ok and the serialized record fits the space allocated   *)
(* at init; in every other case (Err, panic) the stored accounts are those *)
(* of before the call.                                                     *)
(***************************************************************************)
EXTENDS Integers, Naturals, Sequences, FiniteSets, TLC

VARIABLES registry, obligations, last, rt, budget

vars == <<registry, obligations, last, rt, budget>>

(***************************************************************************)
(* Bounds of the model.                                                    *)
(***************************************************************************)
\* width of the unsigned machine integer that stands for u64
U64Bits == 28
\* ledger instructions issued in one behaviour
MaxLedgerCalls == 2
U64_MAX == (2 ^ (U64Bits - 1) - 1) * 2 + 1

\* the keys that hold an obligation
Owners == {"k1"}
None == -1
Panic == -2

(***************************************************************************)
(* Checked u64 arithmetic.  None is Option::None.  The comparisons are     *)
(* arranged so that no intermediate value leaves the u64 range.            *)
(***************************************************************************)
checked_add(a, b) == IF a > U64_MAX - b THEN None ELSE a + b

checked_sub(a, b) == IF a < b THEN None ELSE a - b

checked_mul(a, b) ==
    IF a = 0 \/ b = 0 THEN 0
    ELSE IF a > U64_MAX \div b THEN None ELSE a * b

checked_div(a, b) == IF b = 0 THEN None ELSE a \div b

unwrap_or(x, d) == IF x = None THEN d ELSE x

\* a * b modulo 2^U64Bits, by doubling, so that no intermediate value is large
RECURSIVE wrapping_mul(_, _)
wrapping_mul(a, b) ==
    LET Double(h) == (h + h) % (U64_MAX + 1)
        AddBit(d) == IF b % 2 = 1 THEN (d + a) % (U64_MAX + 1) ELSE d
    IN IF b = 0 THEN 0 ELSE AddBit(Double(wrapping_mul(a, b \div 2)))

\* a * b written with the plain operator: with overflow checks compiled in
\* (oc) an overflow aborts the program, without them the product wraps
unchecked_mul(a, b, oc) ==
    IF checked_mul(a, b) # None THEN a * b
    ELSE IF oc THEN Panic ELSE wrapping_mul(a, b)

\* 10u64.pow(e), under the same build option
RECURSIVE pow10(_, _)
pow10(e, oc) ==
    LET TimesTen(p) == IF p = Panic THEN Panic ELSE unchecked_mul(p, 10, oc)
    IN IF e = 0 THEN 1 ELSE TimesTen(pow10(e - 1, oc))

(***************************************************************************)
(* Decimal handling functions.                                             *)
(***************************************************************************)
scale_amount(amount, decimals, oc) ==
    LET Scale(p) ==
            IF p = Panic THEN Panic ELSE unwrap_or(checked_mul(amount, p), 0)
    IN Scale(pow10(decimals, oc))

calculate_value(amount, price, decimals, oc) ==
    LET Value(scaled_amount) ==
            IF scaled_amount = Panic THEN Panic
            ELSE checked_mul(scaled_amount, price)
        Descale(v, p) ==
            IF v = Panic THEN Panic
            ELSE IF v = None THEN 0
            ELSE unwrap_or(checked_div(v, p), 0)
    IN Descale(Value(scale_amount(amount, decimals, oc)), pow10(decimals, oc))

(***************************************************************************)
(* Account records.                                                        *)
(***************************************************************************)
AssetInfo(id, price, decimals, feed) ==
    [id |-> id, price |-> price, decimals |-> decimals, pyth_feed_id |-> feed]

PairRiskParam(a, b, level) ==
    [asset_id_a |-> a, asset_id_b |-> b, risk_level |-> level]

Position(asset_id, amount) == [asset_id |-> asset_id, amount |-> amount]

\* is_open is FALSE for an account that was never initialized or was closed
AssetRegistry(authority, assets, risk_params) ==
    [is_open |-> TRUE, authority |-> authority, assets |-> assets,
     risk_params |-> risk_params]

Obligation(owner, deposits, borrows, health_score) ==
    [is_open |-> TRUE, owner |-> owner, deposits |-> deposits,
     borrows |-> borrows, health_score |-> health_score]

NoAssetRegistry ==
    [is_open |-> FALSE, authority |-> "", assets |-> <<>>, risk_params |-> <<>>]

NoObligation ==
    [is_open |-> FALSE, owner |-> "", deposits |-> <<>>, borrows |-> <<>>,
     health_score |-> 0]

\* #[max_len(..)] of the four lists
MaxLenAssets == 20
MaxLenRiskParams == 50
MaxLenDeposits == 11
MaxLenBorrows == 10

\* space = 8 + INIT_SPACE of the two accounts, without the discriminator
AssetRegistrySpace == 32 + (4 + MaxLenAssets * 42) + (4 + MaxLenRiskParams * 3)

ObligationSpace == 32 + (4 + MaxLenDeposits * 9) + (4 + MaxLenBorrows * 9) + 8

\* bytes of the Borsh encoding of the records
AssetRegistrySize(r) == 32 + (4 + Len(r.assets) * 42) + (4 + Len(r.risk_params) * 3)

ObligationSize(o) == 32 + (4 + Len(o.deposits) * 9) + (4 + Len(o.borrows) * 9) + 8

(***************************************************************************)
(* Sequence helpers standing for the iterator calls of the handlers.       *)
(***************************************************************************)
\* iter().any(|x| x.id == id)
AnyAsset(assets, id) == \E i \in 1..Len(assets) : assets[i].id = id

\* iter_mut().find(|x| x.id == id): index of the first match, 0 if none
FindAsset(assets, id) ==
    IF AnyAsset(assets, id)
    THEN CHOOSE i \in 1..Len(assets) :
            /\ assets[i].id = id
            /\ \A j \in 1..(i - 1) : assets[j].id # id
    ELSE 0

\* iter_mut().find(|p| p.asset_id == asset_id): index of the first match, 0 if none
FindPosition(positions, asset_id) ==
    IF \E i \in 1..Len(positions) : positions[i].asset_id = asset_id
    THEN CHOOSE i \in 1..Len(positions) :
            /\ positions[i].asset_id = asset_id
            /\ \A j \in 1..(i - 1) : positions[j].asset_id # asset_id
    ELSE 0

\* retain(|p| p.asset_id != asset_id)
RECURSIVE Retain(_, _)
Retain(positions, asset_id) ==
    IF positions = <<>> THEN <<>>
    ELSE IF Head(positions).asset_id = asset_id
         THEN Retain(Tail(positions), asset_id)
         ELSE <<Head(positions)>> \o Retain(Tail(positions), asset_id)

(***************************************************************************)
(* The price update account handed to an instruction.  It carries one      *)
(* price message; age is clock.unix_timestamp - publish_time.              *)
(***************************************************************************)
PriceUpdate(feed, price, exponent, age) ==
    [decodable |-> TRUE, feed_id |-> feed, price |-> price,
     exponent |-> exponent, age |-> age]

\* an account that PriceUpdateV2::try_deserialize rejects
Undecodable ==
    [decodable |-> FALSE, feed_id |-> "", price |-> 0, exponent |-> 0, age |-> 0]

\* (price as u64) of an i64: a negative value wraps to the top of the range
AsU64(x) == IF x < 0 THEN U64_MAX + (1 + x) ELSE x

\* PriceUpdateV2::get_price_no_older_than
get_price_no_older_than(upd, maximum_age, feed_id) ==
    IF upd.feed_id # feed_id THEN "MismatchedFeedId"
    ELSE IF upd.age > maximum_age THEN "PriceTooOld"
    ELSE "Ok"

\* Ok(price_in_cents) as a number, Err(_) as None, a panic as Panic
get_pyth_price(upd, feed_id, oc) ==
    LET Scaled(p) ==
            IF p = Panic THEN Panic
            ELSE IF upd.exponent >= 0
                 THEN unwrap_or(checked_mul(AsU64(upd.price), p), 0)
                 ELSE unwrap_or(checked_div(AsU64(upd.price), p), 0)
        InCents(price_scaled) ==
            IF price_scaled = Panic THEN Panic
            ELSE unwrap_or(checked_mul(price_scaled, 100), 0)
    IN IF ~upd.decodable THEN None
       ELSE IF get_price_no_older_than(upd, 60, feed_id) # "Ok" THEN None
       ELSE InCents(Scaled(pow10(IF upd.exponent >= 0 THEN upd.exponent
                                 ELSE 0 - upd.exponent, oc)))

(***************************************************************************)
(* perform_health_check.  The result is [err, obligation]; err "Panic"   *)
(* is an abort of the program (index out of bounds, unwrap of None).       *)
(***************************************************************************)
\* the slot a position is valued with: asset_registry.assets[asset_id as usize]
\* (0 when the index is out of bounds, which aborts the program)
AssetSlot(assets, asset_id) ==
    IF asset_id + 1 <= Len(assets) THEN asset_id + 1 ELSE 0

\* the value of one position in the two loops of the health check
PositionValue(assets, upd, pos, oc) ==
    LET Valued(asset_info, oracle) ==
            IF oracle = Panic THEN Panic
            ELSE calculate_value(pos.amount,
                                 IF oracle = None THEN asset_info.price ELSE oracle,
                                 asset_info.decimals, oc)
        At(slot) ==
            IF slot = 0 THEN Panic
            ELSE Valued(assets[slot],
                        get_pyth_price(upd, assets[slot].pyth_feed_id, oc))
    IN At(AssetSlot(assets, pos.asset_id))

\* the loop  total = total.checked_add(value).unwrap()  over the positions
RECURSIVE TotalValue(_, _, _, _, _)
TotalValue(assets, upd, positions, total, oc) ==
    LET Add(v) == IF v = Panic THEN Panic ELSE checked_add(total, v)
        Continue(t) == IF t = Panic \/ t = None THEN Panic
                       ELSE TotalValue(assets, upd, Tail(positions), t, oc)
    IN IF positions = <<>> THEN total
       ELSE Continue(Add(PositionValue(assets, upd, Head(positions), oc)))

HealthScore(total_deposit_value, total_borrow_value) ==
    LET Ratio(m) == IF m = None THEN Panic ELSE m \div total_borrow_value
    IN IF total_borrow_value = 0 THEN U64_MAX
       ELSE Ratio(checked_mul(total_deposit_value, 1000))

MinHealthScore == 1000

\* a health check that judges the obligation without caching the score
perform_health_check_without_cache(obligation, asset_registry, upd, oc) ==
    LET Borrowed(total_deposit_value) ==
            IF total_deposit_value = Panic THEN Panic
            ELSE TotalValue(asset_registry.assets, upd, obligation.borrows, 0, oc)
        Score(total_deposit_value, total_borrow_value) ==
            IF total_borrow_value = Panic THEN Panic
            ELSE HealthScore(total_deposit_value, total_borrow_value)
        Checked(health_score) ==
            IF health_score = Panic
            THEN [err |-> "Panic", obligation |-> obligation]
            ELSE [err |-> IF health_score < MinHealthScore
                          THEN "InsufficientCollateral" ELSE "Ok",
                  obligation |-> obligation]
        Totals(total_deposit_value) ==
            Checked(Score(total_deposit_value, Borrowed(total_deposit_value)))
    IN Totals(TotalValue(asset_registry.assets, upd, obligation.deposits, 0, oc))

perform_health_check(obligation, asset_registry, upd, oc) ==
    LET Borrowed(total_deposit_value) ==
            IF total_deposit_value = Panic THEN Panic
            ELSE TotalValue(asset_registry.assets, upd, obligation.borrows, 0, oc)
        Score(total_deposit_value, total_borrow_value) ==
            IF total_borrow_value = Panic THEN Panic
            ELSE HealthScore(total_deposit_value, total_borrow_value)
        Checked(health_score) ==
            IF health_score = Panic
            THEN [err |-> "Panic", obligation |-> obligation]
            ELSE [err |-> IF health_score < MinHealthScore
                          THEN "InsufficientCollateral" ELSE "Ok",
                  obligation |-> [obligation EXCEPT !.health_score = health_score]]
        Totals(total_deposit_value) ==
            Checked(Score(total_deposit_value, Borrowed(total_deposit_value)))
    IN Totals(TotalValue(asset_registry.assets, upd, obligation.deposits, 0, oc))

(***************************************************************************)
(* get_feed_id_from_hex of the Pyth SDK on the hex strings used as inputs: *)
(* an optional 0x prefix is dropped, the digits are decoded into the feed  *)
(* id, anything else is an error.                                          *)
(***************************************************************************)
FeedIdError == "FeedIdError"

get_feed_id_from_hex(hex) ==
    CASE hex = "f1" -> "F1"
      [] hex = "0xf1" -> "F1"
      [] hex = "f2" -> "F2"
      [] hex = "0xf2" -> "F2"
      [] OTHER -> FeedIdError

(***************************************************************************)
(* Registry handlers.  The result is [err, registry].                      *)
(***************************************************************************)
\* add_asset without its "Check if ID already exists"
add_asset_unchecked(reg, id, price, decimals, pyth_feed_id) ==
    LET feed_id == get_feed_id_from_hex(pyth_feed_id)
    IN IF feed_id = FeedIdError
       THEN [err |-> FeedIdError, registry |-> reg]
       ELSE [err |-> "Ok",
             registry |-> [reg EXCEPT !.assets =
                 Append(@, AssetInfo(id, price, decimals, feed_id))]]

add_asset(reg, id, price, decimals, pyth_feed_id) ==
    IF AnyAsset(reg.assets, id)
    THEN [err |-> "AssetAlreadyExists", registry |-> reg]
    ELSE LET feed_id == get_feed_id_from_hex(pyth_feed_id)
         IN IF feed_id = FeedIdError
            THEN [err |-> FeedIdError, registry |-> reg]
            ELSE [err |-> "Ok",
                  registry |-> [reg EXCEPT !.assets =
                      Append(@, AssetInfo(id, price, decimals, feed_id))]]

\* the conversion of a Pyth price in update_price_from_pyth
ConvertPrice(price, exponent, oc) ==
    LET e == IF exponent < 0 THEN 0 - exponent ELSE exponent
        p == pow10(e, oc)
    IN IF p = Panic THEN Panic
       ELSE IF exponent < 0
            THEN IF p = 0 THEN Panic ELSE AsU64(price) \div p
            ELSE unchecked_mul(AsU64(price), p, oc)

\* update_price_from_pyth with the maximum age of the health check (60)
update_price_from_pyth_max_age_60(reg, asset_id, upd, oc) ==
    LET i == FindAsset(reg.assets, asset_id)
    IN IF i = 0 THEN [err |-> "AssetNotFound", registry |-> reg]
       ELSE LET got == get_price_no_older_than(upd, 60, reg.assets[i].pyth_feed_id)
                new_price == ConvertPrice(upd.price, upd.exponent, oc)
            IN IF got # "Ok" THEN [err |-> got, registry |-> reg]
               ELSE IF new_price = Panic THEN [err |-> "Panic", registry |-> reg]
               ELSE [err |-> "Ok",
                     registry |-> [reg EXCEPT !.assets[i].price = new_price]]

update_price_from_pyth(reg, asset_id, upd, oc) ==
    LET i == FindAsset(reg.assets, asset_id)
    IN IF i = 0 THEN [err |-> "AssetNotFound", registry |-> reg]
       ELSE LET got == get_price_no_older_than(upd, 300, reg.assets[i].pyth_feed_id)
                new_price == ConvertPrice(upd.price, upd.exponent, oc)
            IN IF got # "Ok" THEN [err |-> got, registry |-> reg]
               ELSE IF new_price = Panic THEN [err |-> "Panic", registry |-> reg]
               ELSE [err |-> "Ok",
                     registry |-> [reg EXCEPT !.assets[i].price = new_price]]

\* an update that overwrites the price of every asset
update_every_asset_price(reg, id, new_price) ==
    IF FindAsset(reg.assets, id) = 0 THEN [err |-> "AssetNotFound", registry |-> reg]
    ELSE [err |-> "Ok",
          registry |-> [reg EXCEPT !.assets =
              [k \in 1..Len(reg.assets) |-> [reg.assets[k] EXCEPT !.price = new_price]]]]

update_asset_price(reg, id, new_price) ==
    LET i == FindAsset(reg.assets, id)
    IN IF i = 0 THEN [err |-> "AssetNotFound", registry |-> reg]
       ELSE [err |-> "Ok", registry |-> [reg EXCEPT !.assets[i].price = new_price]]

\* the closure comparing the pair in the given order only
SamePairInOrder(p, asset_id_a, asset_id_b) ==
    p.asset_id_a = asset_id_a /\ p.asset_id_b = asset_id_b

\* the closure of  registry.risk_params.iter().any(..)
SamePair(p, asset_id_a, asset_id_b) ==
    \/ (p.asset_id_a = asset_id_a /\ p.asset_id_b = asset_id_b)
    \/ (p.asset_id_a = asset_id_b /\ p.asset_id_b = asset_id_a)

add_risk_param(reg, asset_id_a, asset_id_b, risk_level) ==
    IF ~AnyAsset(reg.assets, asset_id_a)
    THEN [err |-> "AssetNotFound", registry |-> reg]
    ELSE IF ~AnyAsset(reg.assets, asset_id_b)
    THEN [err |-> "AssetNotFound", registry |-> reg]
    ELSE IF \E k \in 1..Len(reg.risk_params) :
               SamePair(reg.risk_params[k], asset_id_a, asset_id_b)
    THEN [err |-> "RiskParamAlreadyExists", registry |-> reg]
    ELSE [err |-> "Ok",
          registry |-> [reg EXCEPT !.risk_params =
              Append(@, PairRiskParam(asset_id_a, asset_id_b, risk_level))]]

(***************************************************************************)
(* Obligation handlers.  The result is [err, obligation]: the obligation   *)
(* as the handler leaves it in memory when it returns.                     *)
(***************************************************************************)
\* an add that always pushes a new position
AddPositionAlwaysPushes(positions, asset_id, amount) ==
    Append(positions, Position(asset_id, amount))

\* "Add or update": the position list after the merge, None on overflow
AddPosition(positions, asset_id, amount) ==
    LET i == FindPosition(positions, asset_id)
    IN IF i = 0 THEN Append(positions, Position(asset_id, amount))
       ELSE [positions EXCEPT ![i].amount = checked_add(@, amount)]

\* a merge that never reports an overflow
AddNeverOverflows(positions, asset_id, amount) == FALSE

\* the checked_add of the merge overflows
AddOverflows(positions, asset_id, amount) ==
    LET i == FindPosition(positions, asset_id)
    IN i # 0 /\ checked_add(positions[i].amount, amount) = None

\* subtract without the "Remove if zero"
SubPositionKeepsZero(positions, asset_id, amount) ==
    [positions EXCEPT ![FindPosition(positions, asset_id)].amount = @ - amount]

\* subtract, then "Remove if zero"
SubPosition(positions, asset_id, amount) ==
    LET i == FindPosition(positions, asset_id)
        left == checked_sub(positions[i].amount, amount)
        subtracted == [positions EXCEPT ![i].amount = left]
    IN IF left = 0 THEN Retain(subtracted, asset_id) ELSE subtracted

add_deposit(obl, reg, asset_id, amount, upd, oc) ==
    IF ~AnyAsset(reg.assets, asset_id)
    THEN [err |-> "AssetNotFound", obligation |-> obl]
    ELSE IF AddOverflows(obl.deposits, asset_id, amount)
    THEN [err |-> "MathOverflow", obligation |-> obl]
    ELSE perform_health_check(
            [obl EXCEPT !.deposits = AddPosition(@, asset_id, amount)],
            reg, upd, oc)

add_borrow(obl, reg, asset_id, amount, upd, oc) ==
    IF ~AnyAsset(reg.assets, asset_id)
    THEN [err |-> "AssetNotFound", obligation |-> obl]
    ELSE IF AddOverflows(obl.borrows, asset_id, amount)
    THEN [err |-> "MathOverflow", obligation |-> obl]
    ELSE perform_health_check(
            [obl EXCEPT !.borrows = AddPosition(@, asset_id, amount)],
            reg, upd, oc)

\* remove_deposit without its early return on amount == 0
remove_deposit_no_early_return(obl, reg, asset_id, amount, upd, oc) ==
    IF FindPosition(obl.deposits, asset_id) = 0
    THEN [err |-> "DepositNotFound", obligation |-> obl]
    ELSE IF obl.deposits[FindPosition(obl.deposits, asset_id)].amount < amount
    THEN [err |-> "InsufficientDeposit", obligation |-> obl]
    ELSE perform_health_check(
            [obl EXCEPT !.deposits = SubPosition(@, asset_id, amount)],
            reg, upd, oc)

remove_deposit(obl, reg, asset_id, amount, upd, oc) ==
    IF amount = 0 THEN [err |-> "Ok", obligation |-> obl]
    ELSE IF FindPosition(obl.deposits, asset_id) = 0
    THEN [err |-> "DepositNotFound", obligation |-> obl]
    ELSE IF obl.deposits[FindPosition(obl.deposits, asset_id)].amount < amount
    THEN [err |-> "InsufficientDeposit", obligation |-> obl]
    ELSE perform_health_check(
            [obl EXCEPT !.deposits = SubPosition(@, asset_id, amount)],
            reg, upd, oc)

remove_borrow(obl, reg, asset_id, amount, upd, oc) ==
    IF amount = 0 THEN [err |-> "Ok", obligation |-> obl]
    ELSE IF FindPosition(obl.borrows, asset_id) = 0
    THEN [err |-> "BorrowNotFound", obligation |-> obl]
    ELSE IF obl.borrows[FindPosition(obl.borrows, asset_id)].amount < amount
    THEN [err |-> "InsufficientBorrow", obligation |-> obl]
    ELSE perform_health_check(
            [obl EXCEPT !.borrows = SubPosition(@, asset_id, amount)],
            reg, upd, oc)

(***************************************************************************)
(* Write-back of a mutable account when the instruction ends.  pre is the  *)
(* stored account, res the handler's result: the account in memory is      *)
(* serialized into the stored account only after the handler returned Ok,  *)
(* and the serialization fails when the record does not fit the space.     *)
(***************************************************************************)
\* a write-back that also stores what a failed handler left in memory
ExitObligationAlways(pre, res) ==
    IF ObligationSize(res.obligation) > ObligationSpace
    THEN [err |-> "AccountDidNotSerialize", obligation |-> pre]
    ELSE res

ExitObligation(pre, res) ==
    IF res.err # "Ok" THEN [err |-> res.err, obligation |-> pre]
    ELSE IF ObligationSize(res.obligation) > ObligationSpace
    THEN [err |-> "AccountDidNotSerialize", obligation |-> pre]
    ELSE res

ExitRegistry(pre, res) ==
    IF res.err # "Ok" THEN [err |-> res.err, registry |-> pre]
    ELSE IF AssetRegistrySize(res.registry) > AssetRegistrySpace
    THEN [err |-> "AccountDidNotSerialize", registry |-> pre]
    ELSE res

(***************************************************************************)
(* State.                                                                  *)
(*   registry     the asset_registry account                               *)
(*   obligations  the obligation account of every owner key                *)
(*   last         the instruction executed last and its result             *)
(*   rt           the deposit list before a successful add_deposit, kept   *)
(*                while the same owner's next instruction undoes it        *)
(*   budget       number of ledger instructions still to be issued         *)
(***************************************************************************)
Call(op, caller, args, err) ==
    [op |-> op, caller |-> caller, args |-> args, err |-> err]

RtNone == [phase |-> "none", owner |-> "", asset_id |-> 0, amount |-> 0,
           deposits |-> <<>>]

\* no account exists yet
NoAccounts ==
    /\ registry = NoAssetRegistry
    /\ obligations = [o \in Owners |-> NoObligation]
    /\ last = Call("none", "", <<>>, "Ok")
    /\ rt = RtNone

Init == NoAccounts /\ budget = MaxLedgerCalls

(***************************************************************************)
(* Registry instructions.                                                  *)
(***************************************************************************)
\* InitializeAssetRegistry: init fails on an account that already exists
InitializeAssetRegistry(authority) ==
    /\ IF registry.is_open
       THEN /\ registry' = registry
            /\ last' = Call("initialize_asset_registry", authority, <<>>,
                            "AccountAlreadyInUse")
       ELSE /\ registry' = AssetRegistry(authority, <<>>, <<>>)
            /\ last' = Call("initialize_asset_registry", authority, <<>>, "Ok")
    /\ rt' = RtNone
    /\ UNCHANGED <<obligations, budget>>

\* ManageAssetRegistry: the account exists and has_one = authority
ManageAssetRegistry(authority) ==
    IF ~registry.is_open THEN "AccountNotInitialized"
    ELSE IF registry.authority # authority THEN "ConstraintHasOne"
    ELSE "Ok"

AddAsset(authority, id, price, decimals, pyth_feed_id) ==
    LET ctx == ManageAssetRegistry(authority)
        res == IF ctx # "Ok" THEN [err |-> ctx, registry |-> registry]
               ELSE ExitRegistry(registry,
                        add_asset(registry, id, price, decimals, pyth_feed_id))
    IN /\ registry' = res.registry
       /\ last' = Call("add_asset", authority,
                       <<id, price, decimals, pyth_feed_id>>, res.err)
       /\ rt' = RtNone
       /\ UNCHANGED <<obligations, budget>>

UpdateAssetPrice(authority, id, new_price) ==
    LET ctx == ManageAssetRegistry(authority)
        res == IF ctx # "Ok" THEN [err |-> ctx, registry |-> registry]
               ELSE ExitRegistry(registry,
                        update_asset_price(registry, id, new_price))
    IN /\ registry' = res.registry
       /\ last' = Call("update_asset_price", authority, <<id, new_price>>, res.err)
       /\ rt' = RtNone
       /\ UNCHANGED <<obligations, budget>>

AddRiskParam(authority, asset_id_a, asset_id_b, risk_level) ==
    LET ctx == ManageAssetRegistry(authority)
        res == IF ctx # "Ok" THEN [err |-> ctx, registry |-> registry]
               ELSE ExitRegistry(registry,
                        add_risk_param(registry, asset_id_a, asset_id_b, risk_level))
    IN /\ registry' = res.registry
       /\ last' = Call("add_risk_param", authority,
                       <<asset_id_a, asset_id_b, risk_level>>, res.err)
       /\ rt' = RtNone
       /\ UNCHANGED <<obligations, budget>>

\* UpdatePriceFromPyth: any payer; price_update must be a PriceUpdateV2 account
UpdatePriceFromPyth(payer, asset_id, upd, oc) ==
    LET ctx == IF ~registry.is_open THEN "AccountNotInitialized"
               ELSE IF ~upd.decodable THEN "AccountDidNotDeserialize"
               ELSE "Ok"
        res == IF ctx # "Ok" THEN [err |-> ctx, registry |-> registry]
               ELSE ExitRegistry(registry,
                        update_price_from_pyth(registry, asset_id, upd, oc))
    IN /\ registry' = res.registry
       /\ last' = Call("update_price_from_pyth", payer, <<asset_id>>, res.err)
       /\ rt' = RtNone
       /\ UNCHANGED <<obligations, budget>>

\* DeleteAssetRegistry: close = authority, for whichever signer is passed
DeleteAssetRegistry(authority) ==
    /\ IF registry.is_open
       THEN /\ registry' = NoAssetRegistry
            /\ last' = Call("delete_asset_registry", authority, <<>>, "Ok")
       ELSE /\ registry' = registry
            /\ last' = Call("delete_asset_registry", authority, <<>>,
                            "AccountNotInitialized")
    /\ rt' = RtNone
    /\ UNCHANGED <<obligations, budget>>

(***************************************************************************)
(* Obligation instructions.                                                *)
(***************************************************************************)
\* An obligation instruction whose accounts do not pass the checks of its
\* context never enters its handler; the actions below are the instructions
\* whose accounts pass.
\* InitObligation: init needs an account that does not exist yet; the new
\* account is zeroed, and the handler leaves health_score as it is
InitObligation(owner) ==
    /\ ~obligations[owner].is_open
    /\ obligations' = [obligations EXCEPT ![owner] = Obligation(owner, <<>>, <<>>, 0)]
    /\ last' = Call("init_obligation", owner, <<>>, "Ok")
    /\ rt' = RtNone
    /\ UNCHANGED <<registry, budget>>

\* DeleteObligation: close = owner
DeleteObligation(owner) ==
    /\ obligations[owner].is_open
    /\ obligations' = [obligations EXCEPT ![owner] = NoObligation]
    /\ last' = Call("delete_obligation", owner, <<>>, "Ok")
    /\ rt' = RtNone
    /\ UNCHANGED <<registry, budget>>

\* ModifyObligation: the obligation derived from the owner's key and the
\* registry both exist
ModifyObligation(owner) == obligations[owner].is_open /\ registry.is_open

\* Every ledger instruction uses one unit of the budget, stores the result
\* of the write-back and records the call.
AddDeposit(owner, asset_id, amount, upd, oc) ==
    LET pre == obligations[owner]
        res == ExitObligation(pre,
                   add_deposit(pre, registry, asset_id, amount, upd, oc))
    IN /\ ModifyObligation(owner)
       /\ budget > 0
       /\ budget' = budget - 1
       /\ obligations' = [obligations EXCEPT ![owner] = res.obligation]
       /\ last' = Call("add_deposit", owner, <<asset_id, amount>>, res.err)
       /\ rt' = IF res.err = "Ok"
                THEN [phase |-> "added", owner |-> owner, asset_id |-> asset_id,
                      amount |-> amount, deposits |-> pre.deposits]
                ELSE RtNone
       /\ UNCHANGED registry

AddBorrow(owner, asset_id, amount, upd, oc) ==
    LET pre == obligations[owner]
        res == ExitObligation(pre,
                   add_borrow(pre, registry, asset_id, amount, upd, oc))
    IN /\ ModifyObligation(owner)
       /\ budget > 0
       /\ budget' = budget - 1
       /\ obligations' = [obligations EXCEPT ![owner] = res.obligation]
       /\ last' = Call("add_borrow", owner, <<asset_id, amount>>, res.err)
       /\ rt' = RtNone
       /\ UNCHANGED registry

RemoveDeposit(owner, asset_id, amount, upd, oc) ==
    LET pre == obligations[owner]
        res == ExitObligation(pre,
                   remove_deposit(pre, registry, asset_id, amount, upd, oc))
    IN /\ ModifyObligation(owner)
       /\ budget > 0
       /\ budget' = budget - 1
       /\ obligations' = [obligations EXCEPT ![owner] = res.obligation]
       /\ last' = Call("remove_deposit", owner, <<asset_id, amount>>, res.err)
       /\ rt' = IF /\ res.err = "Ok"
                   /\ rt.phase = "added"
                   /\ rt.owner = owner
                   /\ rt.asset_id = asset_id
                   /\ rt.amount = amount
                THEN [rt EXCEPT !.phase = "removed"]
                ELSE RtNone
       /\ UNCHANGED registry

RemoveBorrow(owner, asset_id, amount, upd, oc) ==
    LET pre == obligations[owner]
        res == ExitObligation(pre,
                   remove_borrow(pre, registry, asset_id, amount, upd, oc))
    IN /\ ModifyObligation(owner)
       /\ budget > 0
       /\ budget' = budget - 1
       /\ obligations' = [obligations EXCEPT ![owner] = res.obligation]
       /\ last' = Call("remove_borrow", owner, <<asset_id, amount>>, res.err)
       /\ rt' = RtNone
       /\ UNCHANGED registry

(***************************************************************************)
(* Spec: every instruction, on a registry of up to three assets and one    *)
(* obligation, with at most MaxLedgerCalls ledger instructions.            *)
(***************************************************************************)
\* the signer of the registry instructions
Authorities == {"k1"}

\* <<id, price, decimals, pyth_feed_id>> handed to add_asset
AssetInputs == {<<0, 100, 0, "f1">>, <<1, 100, 0, "0xf1">>, <<2, 50, 0, "f2">>,
                <<2, 50, 2, "zz">>}

\* <<id, new_price>> handed to update_asset_price
PriceInputs == {<<2, 0>>, <<3, 1>>}

\* <<asset_id_a, asset_id_b, risk_level>> handed to add_risk_param
RiskInputs == {<<1, 2, 20>>, <<1, 3, 20>>}

\* <<asset_id, amount>> handed to the ledger instructions
LedgerInputs == {<<1, 10>>, <<2, 15>>, <<1, 0>>, <<1, U64_MAX>>}

\* price update accounts handed to the instructions
PriceUpdates == {Undecodable, PriceUpdate("F2", 50, 0, 0)}

\* the build options: overflow checks compiled in or not
Builds == BOOLEAN

Next ==
    \/ \E k \in Authorities : InitializeAssetRegistry(k)
    \/ \E k \in Authorities, a \in AssetInputs : AddAsset(k, a[1], a[2], a[3], a[4])
    \/ \E k \in Authorities, x \in PriceInputs : UpdateAssetPrice(k, x[1], x[2])
    \/ \E k \in Authorities, r \in RiskInputs : AddRiskParam(k, r[1], r[2], r[3])
    \/ \E k \in Authorities, x \in PriceInputs, u \in PriceUpdates, oc \in Builds :
          UpdatePriceFromPyth(k, x[1], u, oc)
    \/ \E k \in Authorities : DeleteAssetRegistry(k)
    \/ \E o \in Owners : InitObligation(o)
    \/ \E o \in Owners : DeleteObligation(o)
    \/ \E o \in Owners, x \in LedgerInputs, u \in PriceUpdates, oc \in Builds :
          AddDeposit(o, x[1], x[2], u, oc)
    \/ \E o \in Owners, x \in LedgerInputs, u \in PriceUpdates, oc \in Builds :
          AddBorrow(o, x[1], x[2], u, oc)
    \/ \E o \in Owners, x \in LedgerInputs, u \in PriceUpdates, oc \in Builds :
          RemoveDeposit(o, x[1], x[2], u, oc)
    \/ \E o \in Owners, x \in LedgerInputs, u \in PriceUpdates, oc \in Builds :
          RemoveBorrow(o, x[1], x[2], u, oc)

Spec == Init /\ [][Next]_vars

(***************************************************************************)
(* SpecRegistry: the registry instructions alone, signed by two keys, on   *)
(* more varied inputs.                                                     *)
(***************************************************************************)
Keys == {"k1", "k2"}

RegAssetInputs == {<<1, 100, 0, "f1">>, <<1, 7, 2, "f2">>, <<2, 50, 0, "0xf1">>,
                   <<3, 0, 0, "zz">>}

RegPriceInputs == {<<1, 0>>, <<4, 1>>}

RegRiskInputs == {<<1, 2, 20>>, <<2, 1, 30>>, <<1, 1, 50>>, <<1, 4, 20>>}

RegPriceUpdates == {Undecodable, PriceUpdate("F1", 5, 0, 0), PriceUpdate("F2", 123, -2, 300),
                    PriceUpdate("F2", 9, 0, 301), PriceUpdate("F1", 6, 8, 0)}

RegistryNext ==
    \/ \E k \in Keys : InitializeAssetRegistry(k)
    \/ \E k \in Keys, a \in RegAssetInputs : AddAsset(k, a[1], a[2], a[3], a[4])
    \/ \E k \in Keys, x \in RegPriceInputs : UpdateAssetPrice(k, x[1], x[2])
    \/ \E k \in Keys, r \in RegRiskInputs : AddRiskParam(k, r[1], r[2], r[3])
    \/ \E k \in Keys, x \in RegPriceInputs, u \in RegPriceUpdates, oc \in Builds :
          UpdatePriceFromPyth(k, x[1], u, oc)
    \/ \E k \in Keys : DeleteAssetRegistry(k)

SpecRegistry == Init /\ [][RegistryNext]_vars

(***************************************************************************)
(* SpecCapacity: the lists are filled up.  What bounds a list is the       *)
(* number of entries, so the ids are handed out in ascending order (the    *)
(* next id is the length of the list), every price is 1 and no oracle      *)
(* price is available.                                                     *)
(***************************************************************************)
\* ids handed to add_asset
CapMaxAssetId == 24
\* ledger instructions issued in one behaviour of SpecCapacity
MaxCapCalls == 13

CapacityNext ==
    \/ \E k \in Authorities : InitializeAssetRegistry(k)
    \/ \E k \in Authorities, id \in 0..CapMaxAssetId :
          /\ registry.is_open
          /\ id = Len(registry.assets)
          /\ AddAsset(k, id, 1, 0, "f1")
    \/ \E o \in Owners : InitObligation(o)
    \/ \E o \in Owners, id \in 0..CapMaxAssetId, oc \in Builds :
          /\ id = Len(obligations[o].deposits)
          /\ AddDeposit(o, id, 1, Undecodable, oc)
    \/ \E o \in Owners, id \in 0..CapMaxAssetId, oc \in Builds :
          /\ id = Len(obligations[o].borrows)
          /\ AddBorrow(o, id, 1, Undecodable, oc)

CapacityInit == NoAccounts /\ budget = MaxCapCalls

SpecCapacity == CapacityInit /\ [][CapacityNext]_vars

(***************************************************************************)
(* SpecLedger: longer sequences of ledger instructions of one owner, on a  *)
(* registry whose assets are registered with ascending ids 0, 1, 2 and     *)
(* without a live price.                                                   *)
(***************************************************************************)
\* ledger instructions issued in one behaviour of SpecLedger
MaxLedgerSteps == 4

\* <<price, decimals>> of the asset registered with id 0, 1, 2
LedgerAssets == <<(<<100, 0>>), (<<100, 0>>), (<<50, 0>>)>>

\* <<asset_id, amount>> handed to the ledger instructions
LedgerSteps == {<<0, 10>>, <<1, 10>>, <<1, 5>>, <<2, 5>>}

LedgerNext ==
    \/ \E k \in Authorities : InitializeAssetRegistry(k)
    \/ \E k \in Authorities, id \in 0..(Len(LedgerAssets) - 1) :
          /\ registry.is_open
          /\ id = Len(registry.assets)
          /\ AddAsset(k, id, LedgerAssets[id + 1][1], LedgerAssets[id + 1][2], "f1")
    \/ \E o \in Owners : InitObligation(o)
    \/ \E o \in Owners, x \in LedgerSteps, oc \in Builds :
          AddDeposit(o, x[1], x[2], Undecodable, oc)
    \/ \E o \in Owners, x \in LedgerSteps, oc \in Builds :
          AddBorrow(o, x[1], x[2], Undecodable, oc)
    \/ \E o \in Owners, x \in LedgerSteps, oc \in Builds :
          RemoveDeposit(o, x[1], x[2], Undecodable, oc)
    \/ \E o \in Owners, x \in LedgerSteps, oc \in Builds :
          RemoveBorrow(o, x[1], x[2], Undecodable, oc)

LedgerInit == NoAccounts /\ budget = MaxLedgerSteps

SpecLedger == LedgerInit /\ [][LedgerNext]_vars

(***************************************************************************)
(* SpecOwners: the ledger instructions of two signers.  The obligation     *)
(* account an instruction is given is an input of the instruction: a       *)
(* signer may hand in the obligation account of any key, and the checks of *)
(* the ModifyObligation context decide whether the handler runs.  An       *)
(* obligation account is named by the key its address is derived from.     *)
(***************************************************************************)
\* ledger instructions issued in one behaviour of SpecOwners
MaxOwnerCalls == 3

\* <<asset_id, amount>> handed to the ledger instructions
OwnerSteps == {<<0, 10>>, <<1, 5>>}

\* account checks that accept the obligation account of any key
ModifyObligationAnyAccount(owner, account) ==
    IF ~obligations[account].is_open \/ ~registry.is_open
    THEN "AccountNotInitialized"
    ELSE "Ok"

\* ModifyObligation: both accounts exist, the obligation's address is the
\* one derived from the signer's key (seeds) and has_one = owner
ModifyObligationAccounts(owner, account) ==
    IF ~obligations[account].is_open \/ ~registry.is_open
    THEN "AccountNotInitialized"
    ELSE IF account # owner THEN "ConstraintSeeds"
    ELSE IF obligations[account].owner # owner THEN "ConstraintHasOne"
    ELSE "Ok"

\* A ledger instruction given an obligation account: when the account checks
\* fail the handler does not run; otherwise the result of the write-back is
\* stored in the account given, and the call is recorded.
AddDepositWithAccounts(owner, account, asset_id, amount, upd, oc) ==
    LET pre == obligations[account]
        ctx == ModifyObligationAccounts(owner, account)
        res == IF ctx # "Ok" THEN [err |-> ctx, obligation |-> pre]
               ELSE ExitObligation(pre,
                        add_deposit(pre, registry, asset_id, amount, upd, oc))
    IN /\ budget > 0
       /\ budget' = budget - 1
       /\ obligations' = [obligations EXCEPT ![account] = res.obligation]
       /\ last' = Call("add_deposit", owner, <<asset_id, amount>>, res.err)
       /\ rt' = RtNone
       /\ UNCHANGED registry

AddBorrowWithAccounts(owner, account, asset_id, amount, upd, oc) ==
    LET pre == obligations[account]
        ctx == ModifyObligationAccounts(owner, account)
        res == IF ctx # "Ok" THEN [err |-> ctx, obligation |-> pre]
               ELSE ExitObligation(pre,
                        add_borrow(pre, registry, asset_id, amount, upd, oc))
    IN /\ budget > 0
       /\ budget' = budget - 1
       /\ obligations' = [obligations EXCEPT ![account] = res.obligation]
       /\ last' = Call("add_borrow", owner, <<asset_id, amount>>, res.err)
       /\ rt' = RtNone
       /\ UNCHANGED registry

RemoveDepositWithAccounts(owner, account, asset_id, amount, upd, oc) ==
    LET pre == obligations[account]
        ctx == ModifyObligationAccounts(owner, account)
        res == IF ctx # "Ok" THEN [err |-> ctx, obligation |-> pre]
               ELSE ExitObligation(pre,
                        remove_deposit(pre, registry, asset_id, amount, upd, oc))
    IN /\ budget > 0
       /\ budget' = budget - 1
       /\ obligations' = [obligations EXCEPT ![account] = res.obligation]
       /\ last' = Call("remove_deposit", owner, <<asset_id, amount>>, res.err)
       /\ rt' = RtNone
       /\ UNCHANGED registry

RemoveBorrowWithAccounts(owner, account, asset_id, amount, upd, oc) ==
    LET pre == obligations[account]
        ctx == ModifyObligationAccounts(owner, account)
        res == IF ctx # "Ok" THEN [err |-> ctx, obligation |-> pre]
               ELSE ExitObligation(pre,
                        remove_borrow(pre, registry, asset_id, amount, upd, oc))
    IN /\ budget > 0
       /\ budget' = budget - 1
       /\ obligations' = [obligations EXCEPT ![account] = res.obligation]
       /\ last' = Call("remove_borrow", owner, <<asset_id, amount>>, res.err)
       /\ rt' = RtNone
       /\ UNCHANGED registry

OwnersNext ==
    \/ \E k \in Authorities : InitializeAssetRegistry(k)
    \/ \E k \in Authorities, id \in 0..(Len(LedgerAssets) - 1) :
          /\ registry.is_open
          /\ id = Len(registry.assets)
          /\ AddAsset(k, id, LedgerAssets[id + 1][1], LedgerAssets[id + 1][2], "f1")
    \/ \E o \in Keys : InitObligation(o)
    \/ \E o \in Keys : DeleteObligation(o)
    \/ \E o \in Keys, acc \in Keys, x \in OwnerSteps, oc \in Builds :
          AddDepositWithAccounts(o, acc, x[1], x[2], Undecodable, oc)
    \/ \E o \in Keys, acc \in Keys, x \in OwnerSteps, oc \in Builds :
          AddBorrowWithAccounts(o, acc, x[1], x[2], Undecodable, oc)
    \/ \E o \in Keys, acc \in Keys, x \in OwnerSteps, oc \in Builds :
          RemoveDepositWithAccounts(o, acc, x[1], x[2], Undecodable, oc)
    \/ \E o \in Keys, acc \in Keys, x \in OwnerSteps, oc \in Builds :
          RemoveBorrowWithAccounts(o, acc, x[1], x[2], Undecodable, oc)

\* no account exists yet
OwnersInit ==
    /\ registry = NoAssetRegistry
    /\ obligations = [o \in Keys |-> NoObligation]
    /\ last = Call("none", "", <<>>, "Ok")
    /\ rt = RtNone
    /\ budget = MaxOwnerCalls

SpecOwners == OwnersInit /\ [][OwnersNext]_vars

(***************************************************************************)
(* The health score of the specification (section 4.4): the pairwise       *)
(* risk-weighted score, with the asset of a position looked up by its id   *)
(* and saturating arithmetic.  It is the reference C2 and C3 compare the   *)
(* program with.                                                           *)
(***************************************************************************)
SatAdd(a, b) == unwrap_or(checked_add(a, b), U64_MAX)

SatMul(a, b) == unwrap_or(checked_mul(a, b), U64_MAX)

RefPrice(reg, asset_id, upd) ==
    LET asset == reg.assets[FindAsset(reg.assets, asset_id)]
        oracle == get_pyth_price(upd, asset.pyth_feed_id, TRUE)
    IN IF oracle = None \/ oracle = Panic THEN asset.price ELSE oracle

RefValue(reg, pos, upd) == SatMul(pos.amount, RefPrice(reg, pos.asset_id, upd))

RECURSIVE RefTotal(_, _, _)
RefTotal(reg, positions, upd) ==
    IF positions = <<>> THEN 0
    ELSE SatAdd(RefValue(reg, Head(positions), upd),
                RefTotal(reg, Tail(positions), upd))

RefRiskLevel(reg, a, b) ==
    LET hits == {k \in 1..Len(reg.risk_params) :
                    {reg.risk_params[k].asset_id_a, reg.risk_params[k].asset_id_b}
                        = {a, b}}
    IN IF hits = {} THEN 50
       ELSE reg.risk_params[CHOOSE k \in hits : \A j \in hits : k <= j].risk_level

RECURSIVE RefContribution(_, _, _, _, _)
RefContribution(reg, deposit, borrows, total_borrow_value, upd) ==
    IF borrows = <<>> THEN 0
    ELSE LET borrow_share == SatMul(RefValue(reg, Head(borrows), upd), 100)
                                 \div total_borrow_value
         IN SatAdd(SatMul(borrow_share,
                          RefRiskLevel(reg, deposit.asset_id, Head(borrows).asset_id)),
                   RefContribution(reg, deposit, Tail(borrows),
                                   total_borrow_value, upd))

RECURSIVE RefWeighted(_, _, _, _, _)
RefWeighted(reg, deposits, borrows, total_borrow_value, upd) ==
    IF deposits = <<>> THEN 0
    ELSE SatAdd(SatMul(RefValue(reg, Head(deposits), upd),
                       RefContribution(reg, Head(deposits), borrows,
                                       total_borrow_value, upd)) \div 100,
                RefWeighted(reg, Tail(deposits), borrows, total_borrow_value, upd))

\* score_x1000, for an obligation whose total borrow value is not zero
RefScore(reg, obl, upd) ==
    LET total_borrow_value == RefTotal(reg, obl.borrows, upd)
    IN (SatMul(RefWeighted(reg, obl.deposits, obl.borrows, total_borrow_value, upd),
               1000) \div total_borrow_value) \div 100

\* every position of the obligation is of a registered asset, and the value
\* of none of them leaves the u64 range whatever price is resolved
PositionsInRange(reg, obl) ==
    \A pos \in {obl.deposits[i] : i \in 1..Len(obl.deposits)}
               \cup {obl.borrows[i] : i \in 1..Len(obl.borrows)} :
        /\ AnyAsset(reg.assets, pos.asset_id)
        /\ \A u \in PriceUpdates :
              checked_mul(pos.amount, RefPrice(reg, pos.asset_id, u)) # None

(***************************************************************************)
(* Claims.                                                                 *)
(***************************************************************************)
LedgerOps == {"add_deposit", "add_borrow", "remove_deposit", "remove_borrow"}

\* the last instruction was a ledger instruction that ran the health check
\* and was accepted
MutationAccepted ==
    /\ last.op \in LedgerOps
    /\ last.err = "Ok"
    /\ last.op \in {"remove_deposit", "remove_borrow"} => last.args[2] # 0

\* C1: a ledger instruction that returns an error leaves every obligation
\* (deposits, borrows, health_score) exactly as it was before the call.
C1_AllOrNothing ==
    [][(last'.op \in LedgerOps /\ last'.err # "Ok") => obligations' = obligations]_vars

\* C1 witness: a call was rejected by the health check, after the handler had
\* changed the positions in memory, on an obligation that holds a deposit.
C1_Witness ==
    /\ last.op \in LedgerOps
    /\ last.err = "InsufficientCollateral"
    /\ obligations[last.caller].deposits # <<>>

\* C2: a mutation is accepted only if the risk-weighted score of the
\* resulting state is at least 1000 (for the prices of some price update
\* account the call may have been given).  Stated for obligations whose
\* position values stay in the u64 range.
C2_AcceptedOnlyIfRiskWeightedHealthy ==
    (/\ MutationAccepted
     /\ obligations[last.caller].borrows # <<>>
     /\ PositionsInRange(registry, obligations[last.caller]))
    => \E u \in PriceUpdates :
          \/ RefTotal(registry, obligations[last.caller].borrows, u) = 0
          \/ RefScore(registry, obligations[last.caller], u) >= MinHealthScore

\* C3: after an accepted mutation of an obligation with a borrow of non-zero
\* value, the cached health_score is the pairwise risk-weighted score.
\* Stated for obligations whose position values stay in the u64 range.
C3_CachedScoreIsRiskWeighted ==
    (/\ MutationAccepted
     /\ obligations[last.caller].borrows # <<>>
     /\ PositionsInRange(registry, obligations[last.caller]))
    => \E u \in PriceUpdates :
          \/ RefTotal(registry, obligations[last.caller].borrows, u) = 0
          \/ obligations[last.caller].health_score
                = RefScore(registry, obligations[last.caller], u)

\* C4: on an obligation without borrows, add_deposit of a registered asset
\* (no amount overflow) and remove_deposit within the held amount complete
\* successfully: the health check neither rejects nor aborts them.
C4_NoBorrowsAlwaysHealthy ==
    (/\ last.op \in {"add_deposit", "remove_deposit"}
     /\ obligations[last.caller].borrows = <<>>)
    => last.err \in {"Ok", "AssetNotFound", "MathOverflow", "DepositNotFound",
                     "InsufficientDeposit"}

\* C5: the registry never holds more than 20 assets.
C5_AtMostTwentyAssets == Len(registry.assets) <= MaxLenAssets

\* C6: an obligation never holds more than 11 deposit positions nor more than
\* 10 borrow positions.
C6_AtMostElevenDepositsTenBorrows ==
    \A o \in Owners :
        /\ Len(obligations[o].deposits) <= MaxLenDeposits
        /\ Len(obligations[o].borrows) <= MaxLenBorrows

\* C7: a successful add_asset appends exactly the entry it was given (the
\* feed id being the decoded hex string); add_asset with an id already present
\* fails with AssetAlreadyExists and leaves the registry unchanged; no two
\* assets of the registry share an id.
C7_AddAssetStoresAndKeepsIdsUnique ==
    /\ [](last.op = "add_asset" /\ last.err = "Ok"
            => /\ registry.assets # <<>>
               /\ registry.assets[Len(registry.assets)] =
                    [id |-> last.args[1], price |-> last.args[2],
                     decimals |-> last.args[3],
                     pyth_feed_id |-> get_feed_id_from_hex(last.args[4])])
    /\ [][(/\ last'.op = "add_asset"
           /\ ManageAssetRegistry(last'.caller) = "Ok"
           /\ \E i \in 1..Len(registry.assets) : registry.assets[i].id = last'.args[1])
          => (last'.err = "AssetAlreadyExists" /\ registry' = registry)]_vars
    /\ [](\A i, j \in 1..Len(registry.assets) :
            i # j => registry.assets[i].id # registry.assets[j].id)

\* C7 witness: add_asset was refused for an id the registry already holds.
C7_Witness ==
    /\ last.op = "add_asset"
    /\ last.err = "AssetAlreadyExists"
    /\ \E i \in 1..Len(registry.assets) :
          /\ registry.assets[i].id = last.args[1]
          /\ registry.assets[i].price # last.args[2]

\* the two risk params name the same unordered pair
SameUnorderedPair(p, q) ==
    {p.asset_id_a, p.asset_id_b} = {q.asset_id_a, q.asset_id_b}

\* C8: add_risk_param fails with AssetNotFound when a or b is not registered;
\* otherwise it fails with RiskParamAlreadyExists, changing nothing, when the
\* pair is stored in either order; no unordered pair is stored twice.
C8_RiskParamsUniqueUnordered ==
    /\ [][(last'.op = "add_risk_param" /\ ManageAssetRegistry(last'.caller) = "Ok")
          => IF \/ ~\E i \in 1..Len(registry.assets) :
                       registry.assets[i].id = last'.args[1]
                \/ ~\E i \in 1..Len(registry.assets) :
                       registry.assets[i].id = last'.args[2]
             THEN last'.err = "AssetNotFound" /\ registry' = registry
             ELSE IF \E k \in 1..Len(registry.risk_params) :
                        {registry.risk_params[k].asset_id_a,
                         registry.risk_params[k].asset_id_b}
                            = {last'.args[1], last'.args[2]}
             THEN last'.err = "RiskParamAlreadyExists" /\ registry' = registry
             ELSE last'.err = "Ok"]_vars
    /\ [](\A i, j \in 1..Len(registry.risk_params) :
            i # j => ~SameUnorderedPair(registry.risk_params[i],
                                        registry.risk_params[j]))

\* C8 witness: (b, a) was refused while (a, b), a # b, is stored.
C8_Witness ==
    /\ last.op = "add_risk_param"
    /\ last.err = "RiskParamAlreadyExists"
    /\ \E k \in 1..Len(registry.risk_params) :
          /\ registry.risk_params[k].asset_id_a = last.args[2]
          /\ registry.risk_params[k].asset_id_b = last.args[1]
          /\ last.args[1] # last.args[2]

\* C9: a successful add_deposit(asset, n) followed by a successful
\* remove_deposit(asset, n) leaves the deposit list as it was before the
\* add_deposit.
C9_RoundTrip ==
    rt.phase = "removed" => obligations[rt.owner].deposits = rt.deposits

\* C10: remove_deposit(asset, 0) and remove_borrow(asset, 0) succeed and
\* change neither the obligations nor the registry.
C10_RemoveZeroIsNoOp ==
    [][(last'.op \in {"remove_deposit", "remove_borrow"} /\ last'.args[2] = 0)
       => (last'.err = "Ok" /\ obligations' = obligations /\ registry' = registry)]_vars

\* C10 witness: a removal of 0 of an asset the obligation has no position
\* for, on an obligation the health check would reject as it stands.
C10_Witness ==
    /\ last.op \in {"remove_deposit", "remove_borrow"}
    /\ last.args[2] = 0
    /\ last.err = "Ok"
    /\ FindPosition(obligations[last.caller].deposits, last.args[1]) = 0
    /\ FindPosition(obligations[last.caller].borrows, last.args[1]) = 0
    /\ perform_health_check(obligations[last.caller], registry, Undecodable,
                            TRUE).err = "InsufficientCollateral"

\* the position list holds a position of the asset whose amount, increased by
\* amount, leaves the u64 range
WouldOverflow(positions, asset_id, amount) ==
    \E i \in 1..Len(positions) :
        /\ positions[i].asset_id = asset_id
        /\ positions[i].amount > U64_MAX - amount

\* C11: add_deposit (add_borrow) of a registered asset whose deposit (borrow)
\* position plus the added amount exceeds the u64 maximum fails with
\* MathOverflow and leaves every obligation as it was.
C11_OverflowingAddFails ==
    [][(/\ last'.op \in {"add_deposit", "add_borrow"}
        /\ AnyAsset(registry.assets, last'.args[1])
        /\ WouldOverflow(IF last'.op = "add_deposit"
                         THEN obligations[last'.caller].deposits
                         ELSE obligations[last'.caller].borrows,
                         last'.args[1], last'.args[2]))
       => (last'.err = "MathOverflow" /\ obligations' = obligations)]_vars

\* C11 witness: an add was refused with MathOverflow on an obligation that
\* holds a non-zero position of that asset.
C11_Witness ==
    /\ last.op \in {"add_deposit", "add_borrow"}
    /\ last.err = "MathOverflow"
    /\ \E i \in 1..Len(obligations[last.caller].deposits) :
          /\ obligations[last.caller].deposits[i].asset_id = last.args[1]
          /\ obligations[last.caller].deposits[i].amount > 0

(***************************************************************************)
(* The fallback of the specification (sections 4.3 and 4.4, step 1): an    *)
(* asset whose live price lookup fails is valued at the static price of    *)
(* the registry asset with the position's asset id.                        *)
(***************************************************************************)
\* the lookup of the asset's feed in the price update account fails
LookupFails(upd, asset) ==
    \/ ~upd.decodable
    \/ upd.feed_id # asset.pyth_feed_id
    \/ upd.age > 60

\* whatever price update account is handed in, no asset has a live price
AllLookupsFail(reg) ==
    \A u \in PriceUpdates : \A i \in 1..Len(reg.assets) :
        LookupFails(u, reg.assets[i])

StaticValue(reg, pos) ==
    calculate_value(pos.amount, reg.assets[FindAsset(reg.assets, pos.asset_id)].price,
                    reg.assets[FindAsset(reg.assets, pos.asset_id)].decimals, TRUE)

RECURSIVE StaticTotal(_, _)
StaticTotal(reg, positions) ==
    IF positions = <<>> THEN 0
    ELSE SatAdd(StaticValue(reg, Head(positions)), StaticTotal(reg, Tail(positions)))

\* the ratio the health check forms, on the static values
StaticScore(reg, obl) ==
    HealthScore(StaticTotal(reg, obl.deposits), StaticTotal(reg, obl.borrows))

OracleErrors == {"InvalidPriceUpdate", "MismatchedFeedId", "PriceTooOld"}

\* C12: when the live price lookup fails for every asset, a ledger call of a
\* registered asset ends as it does with every asset valued at its static
\* registry price: it returns no oracle error, it does not abort, and an
\* accepted mutation caches the score of the static values.  Stated for
\* obligations whose position values stay in the u64 range.
C12_OracleFailureFallsBackToStaticPrice ==
    (/\ last.op \in LedgerOps
     /\ AllLookupsFail(registry)
     /\ AnyAsset(registry.assets, last.args[1])
     /\ last.args[2] # U64_MAX
     /\ PositionsInRange(registry, obligations[last.caller]))
    => /\ last.err \notin OracleErrors \cup {"Panic"}
       /\ MutationAccepted
            => obligations[last.caller].health_score
                 = StaticScore(registry, obligations[last.caller])

\* C13: an instruction that changes or removes an existing registry is signed
\* by the authority the registry records.
C13_RegistryChangedOnlyByAuthority ==
    [][(registry.is_open /\ registry' # registry)
       => last'.caller = registry.authority]_vars

\* the list a removal reads and changes
RemovalList(obl, op) == IF op = "remove_deposit" THEN obl.deposits ELSE obl.borrows

\* the list the removal leaves in place
OtherList(obl, op) == IF op = "remove_deposit" THEN obl.borrows ELSE obl.deposits

HasPosition(positions, asset_id) ==
    \E i \in 1..Len(positions) : positions[i].asset_id = asset_id

HeldAmount(positions, asset_id) ==
    positions[CHOOSE i \in 1..Len(positions) : positions[i].asset_id = asset_id].amount

\* the list after amount was taken from the position of the asset: the
\* position is dropped when nothing is left, the others stay as they are
AfterRemoval(positions, asset_id, amount) ==
    LET Other(p) == p.asset_id # asset_id
    IN IF HeldAmount(positions, asset_id) = amount
       THEN SelectSeq(positions, Other)
       ELSE [i \in 1..Len(positions) |->
               IF positions[i].asset_id = asset_id
               THEN [asset_id |-> asset_id, amount |-> positions[i].amount - amount]
               ELSE positions[i]]

\* C14: remove_deposit / remove_borrow with amount > 0 fails with
\* DepositNotFound / BorrowNotFound when there is no position of the asset,
\* else with InsufficientDeposit / InsufficientBorrow when amount exceeds the
\* position; a failure changes nothing.  When the call succeeds, the position
\* holds exactly amount less, is dropped iff nothing is left, and every other
\* position keeps its amount and its place.
C14_RemoveSemantics ==
    [][(last'.op \in {"remove_deposit", "remove_borrow"} /\ last'.args[2] > 0)
       => LET op == last'.op
              pre == obligations[last'.caller]
              post == obligations'[last'.caller]
              asset_id == last'.args[1]
              amount == last'.args[2]
          IN IF ~HasPosition(RemovalList(pre, op), asset_id)
             THEN /\ last'.err = IF op = "remove_deposit" THEN "DepositNotFound"
                                 ELSE "BorrowNotFound"
                  /\ obligations' = obligations
             ELSE IF amount > HeldAmount(RemovalList(pre, op), asset_id)
             THEN /\ last'.err = IF op = "remove_deposit" THEN "InsufficientDeposit"
                                 ELSE "InsufficientBorrow"
                  /\ obligations' = obligations
             ELSE IF last'.err = "Ok"
             THEN /\ RemovalList(post, op)
                        = AfterRemoval(RemovalList(pre, op), asset_id, amount)
                  /\ OtherList(post, op) = OtherList(pre, op)
             ELSE obligations' = obligations]_vars

\* C14 witness: a removal took part of a deposit and left it in the list,
\* behind another deposit.
C14_Witness ==
    /\ last.op = "remove_deposit"
    /\ last.err = "Ok"
    /\ Len(obligations[last.caller].deposits) = 2
    /\ obligations[last.caller].deposits[2].asset_id = last.args[1]
    /\ obligations[last.caller].deposits[2].amount = 5
    /\ last.args[2] = 5

\* the list an add reads and changes
AdditionList(obl, op) == IF op = "add_deposit" THEN obl.deposits ELSE obl.borrows

\* the list after amount was added for the asset: merged into the position
\* of the asset when there is one, appended as a new position otherwise
AfterAddition(positions, asset_id, amount) ==
    IF HasPosition(positions, asset_id)
    THEN [i \in 1..Len(positions) |->
            IF positions[i].asset_id = asset_id
            THEN [asset_id |-> asset_id, amount |-> positions[i].amount + amount]
            ELSE positions[i]]
    ELSE positions \o <<[asset_id |-> asset_id, amount |-> amount]>>

OnePositionPerAsset(positions) ==
    \A i, j \in 1..Len(positions) :
        i # j => positions[i].asset_id # positions[j].asset_id

\* C15: add_deposit / add_borrow of an asset id that is not registered fails
\* with AssetNotFound and changes nothing; a successful add merges the amount
\* into the position of the asset or appends a new position, leaving the
\* other list alone; no list ever holds two positions of one asset id.
C15_AddMergesOrAppends ==
    /\ [][(/\ last'.op \in {"add_deposit", "add_borrow"}
           /\ ~AnyAsset(registry.assets, last'.args[1]))
          => (last'.err = "AssetNotFound" /\ obligations' = obligations)]_vars
    /\ [][(last'.op \in {"add_deposit", "add_borrow"} /\ last'.err = "Ok")
          => /\ AnyAsset(registry.assets, last'.args[1])
             /\ AdditionList(obligations'[last'.caller], last'.op)
                  = AfterAddition(AdditionList(obligations[last'.caller], last'.op),
                                  last'.args[1], last'.args[2])
             /\ IF last'.op = "add_deposit"
                THEN obligations'[last'.caller].borrows
                        = obligations[last'.caller].borrows
                ELSE obligations'[last'.caller].deposits
                        = obligations[last'.caller].deposits]_vars
    /\ [](\A o \in Owners :
            /\ OnePositionPerAsset(obligations[o].deposits)
            /\ OnePositionPerAsset(obligations[o].borrows))

\* C15 witness: an add was merged into the second of two deposits.
C15_Witness ==
    /\ last.op = "add_deposit"
    /\ last.err = "Ok"
    /\ last.args = <<1, 5>>
    /\ Len(obligations[last.caller].deposits) = 2
    /\ obligations[last.caller].deposits[2] = [asset_id |-> 1, amount |-> 15]

\* C16: update_asset_price by the authority fails with AssetNotFound and
\* changes nothing when no asset has the id; otherwise it succeeds and sets
\* the price of that asset only: the other fields of the asset, the other
\* assets, the risk params, the authority and every obligation stay.
C16_UpdatePriceFrame ==
    [][(last'.op = "update_asset_price" /\ ManageAssetRegistry(last'.caller) = "Ok")
       => IF ~AnyAsset(registry.assets, last'.args[1])
          THEN /\ last'.err = "AssetNotFound"
               /\ registry' = registry
               /\ obligations' = obligations
          ELSE /\ last'.err = "Ok"
               /\ registry'.assets =
                    [i \in 1..Len(registry.assets) |->
                        IF registry.assets[i].id = last'.args[1]
                        THEN [id |-> registry.assets[i].id,
                              price |-> last'.args[2],
                              decimals |-> registry.assets[i].decimals,
                              pyth_feed_id |-> registry.assets[i].pyth_feed_id]
                        ELSE registry.assets[i]]
               /\ registry'.risk_params = registry.risk_params
               /\ registry'.authority = registry.authority
               /\ registry'.is_open
               /\ obligations' = obligations]_vars

\* C16 witness: the price of one of several assets was overwritten while
\* risk params are stored and an obligation holds a position and a score.
C16_Witness ==
    /\ last.op = "update_asset_price"
    /\ last.err = "Ok"
    /\ Len(registry.assets) >= 2
    /\ registry.risk_params # <<>>
    /\ \E i \in 1..Len(registry.assets) :
          /\ registry.assets[i].id = last.args[1]
          /\ registry.assets[i].price = last.args[2]
    /\ \E o \in Owners : obligations[o].deposits # <<>>

\* the positions of an obligation, of both lists
PositionsOf(obl) ==
    {obl.deposits[i] : i \in 1..Len(obl.deposits)}
        \cup {obl.borrows[i] : i \in 1..Len(obl.borrows)}

\* the entry the health check reads for the asset id is the asset of that id
ResolvesToItself(reg, asset_id) ==
    /\ AssetSlot(reg.assets, asset_id) # 0
    /\ reg.assets[AssetSlot(reg.assets, asset_id)].id = asset_id

\* C17: the value of every position held is amount * price clamped to the
\* u64 maximum (under either build), and a ledger call whose assets the
\* health check resolves correctly never aborts.
C17_ValueSaturatesNeverAborts ==
    /\ \A o \in Owners : \A pos \in PositionsOf(obligations[o]) : \A oc \in Builds :
          ResolvesToItself(registry, pos.asset_id)
          => calculate_value(pos.amount,
                 registry.assets[AssetSlot(registry.assets, pos.asset_id)].price,
                 registry.assets[AssetSlot(registry.assets, pos.asset_id)].decimals,
                 oc)
               = SatMul(pos.amount,
                     registry.assets[AssetSlot(registry.assets, pos.asset_id)].price)
    /\ (/\ last.op \in LedgerOps
        /\ ResolvesToItself(registry, last.args[1])
        /\ \A pos \in PositionsOf(obligations[last.caller]) :
              ResolvesToItself(registry, pos.asset_id))
       => last.err # "Panic"

\* C18: every position of a registered asset is valued with the entry of the
\* asset whose id is the position's asset_id, under every price update account
\* and build, and a ledger call of a registered asset does not abort.  Stated
\* for positions whose values stay in the u64 range.
C18_ValuedWithTheAssetOfItsId ==
    /\ \A o \in Owners : \A pos \in PositionsOf(obligations[o]) :
          \A u \in PriceUpdates : \A oc \in Builds :
             (/\ AnyAsset(registry.assets, pos.asset_id)
              /\ checked_mul(pos.amount, RefPrice(registry, pos.asset_id, u)) # None)
             => PositionValue(registry.assets, u, pos, oc) = RefValue(registry, pos, u)
    /\ (/\ last.op \in LedgerOps
        /\ AnyAsset(registry.assets, last.args[1])
        /\ last.args[2] # U64_MAX
        /\ PositionsInRange(registry, obligations[last.caller]))
       => last.err # "Panic"

\* C19: while a registry exists, every position of every obligation is of an
\* asset id the registry holds.
C19_PositionsReferenceRegisteredAssets ==
    registry.is_open =>
    \A o \in Owners : \A pos \in PositionsOf(obligations[o]) :
        AnyAsset(registry.assets, pos.asset_id)

\* the obligation an add of a registered asset asks for
TentativeAdd(obl, op, asset_id, amount) ==
    IF op = "add_deposit"
    THEN [obl EXCEPT !.deposits = AfterAddition(obl.deposits, asset_id, amount)]
    ELSE [obl EXCEPT !.borrows = AfterAddition(obl.borrows, asset_id, amount)]

\* every borrow is worth nothing, whatever price update account is handed in
BorrowsWorthNothing(reg, obl) ==
    \A u \in PriceUpdates : \A i \in 1..Len(obl.borrows) :
        RefValue(reg, obl.borrows[i], u) = 0

\* C20: an add_deposit or add_borrow of registered assets that leaves a
\* non-empty borrow list worth nothing is accepted: it returns Ok, stores the
\* positions asked for and caches the score of a healthy obligation.  Stated
\* without amount overflow and for position values in the u64 range.
C20_ZeroBorrowValueIsHealthy ==
    [][(/\ last'.op \in {"add_deposit", "add_borrow"}
        /\ AnyAsset(registry.assets, last'.args[1])
        /\ ~WouldOverflow(AdditionList(obligations[last'.caller], last'.op),
                          last'.args[1], last'.args[2])
        /\ LET t == TentativeAdd(obligations[last'.caller], last'.op,
                                 last'.args[1], last'.args[2])
           IN /\ t.borrows # <<>>
              /\ PositionsInRange(registry, t)
              /\ BorrowsWorthNothing(registry, t))
       => /\ last'.err = "Ok"
          /\ obligations'[last'.caller] =
                [TentativeAdd(obligations[last'.caller], last'.op,
                              last'.args[1], last'.args[2])
                   EXCEPT !.health_score = U64_MAX]]_vars

\* the health check, run again on the committed obligation with the price
\* update account u, accepts it and leaves it as it is: the cached score is
\* the score of the committed positions
ScoreOfCommittedPositions(reg, obl, u, oc) ==
    LET Same(res) == res.err = "Ok" /\ res.obligation = obl
    IN Same(perform_health_check(obl, reg, u, oc))

\* C21: after a successful add_deposit, add_borrow, remove_deposit or
\* remove_borrow that ran the health check (a removal of amount 0 returns
\* before it), the cached health_score is the score the health check
\* computes from the committed positions (for the prices of some price update
\* account the call may have been given), it is at least 1000, and it is the
\* maximum u64 value when the obligation has no borrows.
C21_CachedScoreFreshAndHealthy ==
    MutationAccepted
    => /\ obligations[last.caller].health_score >= MinHealthScore
       /\ obligations[last.caller].borrows = <<>>
              => obligations[last.caller].health_score = U64_MAX
       /\ \E u \in PriceUpdates, oc \in Builds :
              ScoreOfCommittedPositions(registry, obligations[last.caller], u, oc)

\* C21 witness: an accepted add_borrow left a borrow of non-zero value, so
\* the cached score is a computed ratio and not the maximum value.
C21_Witness ==
    /\ MutationAccepted
    /\ last.op = "add_borrow"
    /\ obligations[last.caller].borrows # <<>>
    /\ obligations[last.caller].health_score >= MinHealthScore
    /\ obligations[last.caller].health_score < U64_MAX

\* the handler of the ledger instruction op
LedgerHandler(op, obl, reg, asset_id, amount, upd, oc) ==
    CASE op = "add_deposit" -> add_deposit(obl, reg, asset_id, amount, upd, oc)
      [] op = "add_borrow" -> add_borrow(obl, reg, asset_id, amount, upd, oc)
      [] op = "remove_deposit" -> remove_deposit(obl, reg, asset_id, amount, upd, oc)
      [] op = "remove_borrow" -> remove_borrow(obl, reg, asset_id, amount, upd, oc)

\* errors of the account checks of ModifyObligation
AccountErrors == {"AccountNotInitialized", "ConstraintSeeds", "ConstraintHasOne"}

\* the caller's obligation after the call and the call's result are those of
\* the handler run on the caller's own obligation and the registry
OutcomeFromOwnObligation(own, own_after, call, reg) ==
    \E oc \in Builds :
        LET Same(res) == own_after = res.obligation /\ call.err = res.err
        IN Same(ExitObligation(own,
                    LedgerHandler(call.op, own, reg, call.args[1], call.args[2],
                                  Undecodable, oc)))

\* C22: whatever obligation account the signer hands in, a ledger instruction
\* (successful or failed) leaves the registry and the obligation of every
\* other key unchanged; it is either rejected by the account checks, changing
\* nothing, or its result and the signer's obligation after it are those of
\* the handler run on the signer's own obligation.
C22_OwnerIsolation ==
    [][last'.op \in LedgerOps
       => /\ registry' = registry
          /\ \A o \in Keys \ {last'.caller} : obligations'[o] = obligations[o]
          /\ IF last'.err \in AccountErrors
             THEN obligations' = obligations
             ELSE OutcomeFromOwnObligation(obligations[last'.caller],
                                           obligations'[last'.caller],
                                           last', registry)]_vars

\* C22 witness: a ledger instruction of k1 succeeded while k2 holds positions
\* of its own.
C22_Witness ==
    /\ last.op \in LedgerOps
    /\ last.caller = "k1"
    /\ last.err = "Ok"
    /\ obligations["k1"].is_open /\ obligations["k1"].deposits # <<>>
    /\ obligations["k2"].is_open /\ obligations["k2"].deposits # <<>>

\* the registry with the price of the asset in slot i replaced, all else kept
WithPrice(reg, i, new_price) ==
    [reg EXCEPT !.assets =
        [j \in 1..Len(reg.assets) |->
            IF j = i THEN [id |-> reg.assets[j].id,
                           price |-> new_price,
                           decimals |-> reg.assets[j].decimals,
                           pyth_feed_id |-> reg.assets[j].pyth_feed_id]
            ELSE reg.assets[j]]]

\* what update_price_from_pyth(asset_id) with the price update account u may
\* do to the registry reg: call is the record of the call, after the registry
\* it leaves
RefreshOutcome(reg, after, call, asset_id, u, oc) ==
    LET Found(i) ==
            IF u.feed_id # reg.assets[i].pyth_feed_id
            THEN call.err = "MismatchedFeedId" /\ after = reg
            ELSE IF u.age > 300
            THEN call.err = "PriceTooOld" /\ after = reg
            ELSE \/ /\ call.err = "Ok"
                    /\ ConvertPrice(u.price, u.exponent, oc) # Panic
                    /\ after = WithPrice(reg, i, ConvertPrice(u.price, u.exponent, oc))
                 \/ /\ call.err = "Panic"
                    /\ after = reg
    IN IF ~AnyAsset(reg.assets, asset_id)
       THEN call.err = "AssetNotFound" /\ after = reg
       ELSE Found(CHOOSE i \in 1..Len(reg.assets) : reg.assets[i].id = asset_id)

\* C23: update_price_from_pyth(asset_id), given an existing registry and a
\* price update account of the oracle, fails with AssetNotFound when no asset
\* has the id, and fails with the error of the lookup when the account holds
\* no price of the asset's feed or one older than 300 seconds; in both cases
\* the registry stays as it is.  Only after a successful lookup is the price
\* of that asset overwritten (with the converted live price); the asset's
\* other fields, the other assets, the risk params and the obligations stay.
\* When the accounts of the instruction do not pass, nothing changes either.
C23_RefreshPriceFromOracle ==
    [][last'.op = "update_price_from_pyth"
       => \A u \in RegPriceUpdates, oc \in Builds :
             UpdatePriceFromPyth(last'.caller, last'.args[1], u, oc)
             => /\ obligations' = obligations
                /\ IF registry.is_open /\ u.decodable
                   THEN RefreshOutcome(registry, registry', last',
                                       last'.args[1], u, oc)
                   ELSE last'.err # "Ok" /\ registry' = registry]_vars

\* C23 witness: a live price of age 300 was stored for one of two assets.
C23_Witness ==
    /\ last.op = "update_price_from_pyth"
    /\ last.err = "Ok"
    /\ Len(registry.assets) = 2
    /\ \E i \in 1..2 :
          /\ registry.assets[i].id = last.args[1]
          /\ registry.assets[i].pyth_feed_id = "F2"
          /\ registry.assets[i].price = 1

\* the price the health check resolves for the asset in slot i from the price
\* update account u is a live price (the lookup of get_pyth_price succeeds)
LiveLookupSucceeds(reg, i, u, oc) ==
    /\ get_pyth_price(u, reg.assets[i].pyth_feed_id, oc) # None
    /\ get_pyth_price(u, reg.assets[i].pyth_feed_id, oc) # Panic

\* C24: the live price has one unit: when update_price_from_pyth stores the
\* price of a price update account, and the health check's lookup in the same
\* account succeeds for that asset, the price stored in the registry is the
\* price the health check uses.
C24_LivePriceInOneUnit ==
    [][(last'.op = "update_price_from_pyth" /\ last'.err = "Ok")
       => \A u \in RegPriceUpdates, oc \in Builds,
             i \in {j \in 1..Len(registry.assets) :
                       registry.assets[j].id = last'.args[1]} :
             (/\ UpdatePriceFromPyth(last'.caller, last'.args[1], u, oc)
              /\ LiveLookupSucceeds(registry, i, u, oc))
             => registry'.assets[i].price
                   = get_pyth_price(u, registry.assets[i].pyth_feed_id, oc)]_vars

====
